---- MODULE Spec2Model ----
(***************************************************************************)
(* Model of FastApiHandler (src/app/fastapi_handler_regression.py): the    *)
(* startup of the handler (model load, derivation of the required feature  *)
(* list) and the handling of requests (validation, feature-vector          *)
(* assembly, inference, response shaping).                                 *)
(*                                                                         *)
(* Python values are tagged records: [type, s, items].  A dict is the      *)
(* sequence of its (key, value) pairs in insertion order, so that          *)
(* iteration order (dict.values()) is part of the value.                   *)
(***************************************************************************)
EXTENDS Integers, Sequences, FiniteSets, TLC

VARIABLES phase, loadResult, loadAttempts, param_types, model,
          feature_names, required_model_params, snapshot, slot

vars == <<phase, loadResult, loadAttempts, param_types, model,
          feature_names, required_model_params, snapshot, slot>>

(***************************************************************************)
(* Bounds of the model.                                                    *)
(***************************************************************************)
\* feature values of a request are BaseVal(key) + shift, shift in 0..MaxShift
MaxShift == 1
\* largest number of keys of a model_params built over the small key set
MaxParams == 3

\* the request handlers that may be in flight at once
Threads == {"t1", "t2"}

(***************************************************************************)
(* Python values.                                                          *)
(***************************************************************************)
PyStr(x) == [type |-> "str", s |-> x, items |-> <<>>]
PyInt(x) == [type |-> "int", s |-> x, items |-> <<>>]
PyNone == [type |-> "NoneType", s |-> "", items |-> <<>>]
PyList == [type |-> "list", s |-> "", items |-> <<>>]
PyDict(its) == [type |-> "dict", s |-> "", items |-> its]
\* placeholder for the value of a key the request does not carry
Absent == [type |-> "absent", s |-> "", items |-> <<>>]

\* key in d, for a dict d given by its items
HasKey(its, key) == \E i \in 1..Len(its) : its[i].k = key
\* d[key], for a key that is present
GetItem(its, key) == its[CHOOSE i \in 1..Len(its) : its[i].k = key].v
\* list(d.values())
Values(its) == [i \in 1..Len(its) |-> its[i].v]
\* the keys of d, as a set
KeySet(its) == {its[i].k : i \in 1..Len(its)}

(***************************************************************************)
(* Outcome of a call: a returned boolean, or a raised exception with the   *)
(* text str(e) gives.                                                      *)
(***************************************************************************)
Ret(b) == [tag |-> "ret", val |-> b, msg |-> ""]
Raise(m) == [tag |-> "exc", val |-> FALSE, msg |-> m]


(***************************************************************************)
(* The model artifact and the regressor loaded from it (external): the     *)
(* feature names it records, if any, and how its predict behaves.          *)
(***************************************************************************)
NoNames == [isNone |-> TRUE, names |-> <<>>]
Names(q) == [isNone |-> FALSE, names |-> q]
\* truth value of a Python list-or-None
Truthy(fn) == ~fn.isNone /\ Len(fn.names) > 0

ModelFeatures == <<"a", "b">>

NoModel == [loaded |-> FALSE, feature_names_ |-> NoNames, kind |-> "none"]
\* CatBoostRegressor() on which load_model did not succeed
UnloadedModel == [loaded |-> FALSE, feature_names_ |-> NoNames, kind |-> "raising"]
Artifacts ==
    {[loaded |-> TRUE, feature_names_ |-> fn, kind |-> k] :
        fn \in {NoNames, Names(<<>>), Names(ModelFeatures)},
        k \in {"numeric", "raising", "nonfloat"}}
\* what load_model finds at model_path: a readable artifact, or nothing usable
LoadOutcomes == {[ok |-> TRUE, artifact |-> a] : a \in Artifacts}
                \cup {[ok |-> FALSE, artifact |-> NoModel]}

DefaultFeatures == <<"gender", "Type", "PaperlessBilling", "PaymentMethod",
                     "MonthlyCharges", "TotalCharges">>

RECURSIVE Score(_, _)
Score(vec, i) == IF i > Len(vec) THEN 0 ELSE i * vec[i] + Score(vec, i + 1)

\* model.predict([input_data])[0]
Predict(m, vec) ==
    CASE m.kind = "numeric" -> [tag |-> "ret", type |-> "float64", val |-> Score(vec, 1), msg |-> ""]
      [] m.kind = "nonfloat" -> [tag |-> "ret", type |-> "str", val |-> 0, msg |-> ""]
      [] OTHER -> [tag |-> "exc", type |-> "", val |-> 0, msg |-> "inference failed"]

\* float(predicted_rating)
ToFloat(out) ==
    IF out.type = "float64"
    THEN [tag |-> "ret", val |-> out.val, msg |-> ""]
    ELSE [tag |-> "exc", val |-> 0, msg |-> "could not convert string to float: 'n/a'"]

(***************************************************************************)
(* The requests offered to handle.                                         *)
(***************************************************************************)
SmallKeys == {"a", "b", "x"}

BaseVal(key) ==
    CASE key = "a" -> 1 [] key = "b" -> 2 [] key = "x" -> 3
      [] key = "gender" -> 1 [] key = "Type" -> 2 [] key = "PaperlessBilling" -> 3
      [] key = "PaymentMethod" -> 4 [] key = "MonthlyCharges" -> 5
      [] OTHER -> 6

\* the dict with the keys of keyseq, inserted in that order
DictOf(keyseq, shift) ==
    PyDict([i \in 1..Len(keyseq) |-> [k |-> keyseq[i], v |-> BaseVal(keyseq[i]) + shift]])

Reverse(q) == [i \in 1..Len(q) |-> q[Len(q) + 1 - i]]

SmallOrders ==
    {q \in UNION {[1..n -> SmallKeys] : n \in 0..MaxParams} :
        \A i, j \in 1..Len(q) : q[i] = q[j] => i = j}

DefaultOrders ==
    {DefaultFeatures, Reverse(DefaultFeatures), <<"x">> \o DefaultFeatures,
     Reverse(DefaultFeatures) \o <<"x">>, Tail(DefaultFeatures)}

ModelParamsDicts ==
    {DictOf(q, sh) : q \in SmallOrders, sh \in 0..MaxShift}
    \cup {DictOf(q, 0) : q \in DefaultOrders}

\* a request that is a dict
Mapping(cid, mp) ==
    [kind |-> "dict",
     keys |-> (IF cid.type = "absent" THEN {} ELSE {"client_id"})
              \cup (IF mp.type = "absent" THEN {} ELSE {"model_params"}),
     client_id |-> cid, model_params |-> mp]
\* a request that is no dict; elems are the strings it contains
NonMapping(kind, elems) ==
    [kind |-> kind, keys |-> elems, client_id |-> Absent, model_params |-> Absent]

Requests ==
    {Mapping(PyStr("123"), mp) : mp \in ModelParamsDicts \cup {Absent, PyList, PyNone}}
    \cup {Mapping(cid, mp) :
            cid \in {PyStr("456"), PyInt("123"), Absent},
            mp \in {Absent, PyList, DictOf(ModelFeatures, 0), DictOf(DefaultFeatures, 0)}}
    \cup {NonMapping("NoneType", {}), NonMapping("int", {}), NonMapping("list", {}),
          NonMapping("list", {"client_id", "model_params"})}

NoRequest == NonMapping("none", {})

(***************************************************************************)
(* Validation.                                                             *)
(***************************************************************************)
\* key in query_params
Contains(q, key) ==
    IF q.kind \in {"NoneType", "int"}
    THEN Raise("argument of type '" \o q.kind \o "' is not iterable")
    ELSE Ret(key \in q.keys)

\* query_params[key], for a key that Contains found
Subscript(q, key) ==
    IF q.kind # "dict"
    THEN [tag |-> "exc", val |-> Absent, msg |-> "list indices must be integers or slices, not str"]
    ELSE [tag |-> "ret", val |-> (IF key = "client_id" THEN q.client_id ELSE q.model_params),
          msg |-> ""]

IsInstance(v, type) == v.type = type

\* mutant: the type of model_params is not checked
CheckRequiredQueryParamsNoDictCheck(q, pt) ==
    LET c1 == Contains(q, "client_id")
        c2 == Contains(q, "model_params")
        cid == Subscript(q, "client_id")
    IN  IF c1.tag = "exc" THEN c1
        ELSE IF ~c1.val THEN Ret(FALSE)
        ELSE IF c2.tag = "exc" THEN c2
        ELSE IF ~c2.val THEN Ret(FALSE)
        ELSE IF cid.tag = "exc" THEN Raise(cid.msg)
        ELSE IF ~IsInstance(cid.val, pt.client_id) THEN Ret(FALSE)
        ELSE Ret(TRUE)

CheckRequiredQueryParams(q, pt) ==
    LET c1 == Contains(q, "client_id")
        c2 == Contains(q, "model_params")
        cid == Subscript(q, "client_id")
        mp == Subscript(q, "model_params")
    IN  IF c1.tag = "exc" THEN c1
        ELSE IF ~c1.val THEN Ret(FALSE)
        ELSE IF c2.tag = "exc" THEN c2
        ELSE IF ~c2.val THEN Ret(FALSE)
        ELSE IF cid.tag = "exc" THEN Raise(cid.msg)
        ELSE IF ~IsInstance(cid.val, pt.client_id) THEN Ret(FALSE)
        ELSE IF mp.tag = "exc" THEN Raise(mp.msg)
        ELSE IF ~IsInstance(mp.val, pt.model_params) THEN Ret(FALSE)
        ELSE Ret(TRUE)

\* mutant: any() where the code has all()
CheckRequiredModelParamsAny(mp, required) ==
    \E i \in 1..Len(required) : HasKey(mp.items, required[i])

CheckRequiredModelParams(mp, required) ==
    \A i \in 1..Len(required) : HasKey(mp.items, required[i])

\* mutant: validate_params without the completeness check
ValidateParamsShapeOnly(q, pt, required) ==
    LET qc == CheckRequiredQueryParams(q, pt)
    IN  IF qc.tag = "exc" THEN [out |-> qc, query_check |-> "raised", model_check |-> "none"]
        ELSE IF ~qc.val THEN [out |-> Ret(FALSE), query_check |-> "false", model_check |-> "none"]
        ELSE [out |-> Ret(TRUE), query_check |-> "true", model_check |-> "true"]

\* [tag, val, msg] of validate_params, with the results of the two checks
ValidateParams(q, pt, required) ==
    LET qc == CheckRequiredQueryParams(q, pt)
        mc == CheckRequiredModelParams(q.model_params, required)
    IN  IF qc.tag = "exc" THEN [out |-> qc, query_check |-> "raised", model_check |-> "none"]
        ELSE IF ~qc.val THEN [out |-> Ret(FALSE), query_check |-> "false", model_check |-> "none"]
        ELSE IF ~mc THEN [out |-> Ret(FALSE), query_check |-> "true", model_check |-> "false"]
        ELSE [out |-> Ret(TRUE), query_check |-> "true", model_check |-> "true"]

(***************************************************************************)
(* Prediction.                                                             *)
(***************************************************************************)
\* the features of fn that mp lacks, as indexes into fn
MissingAt(mp, names) == {i \in 1..Len(names) : ~HasKey(mp.items, names[i])}
Min(S) == CHOOSE x \in S : \A y \in S : x <= y

\* credit_rating_predict: the vector built, whether predict was called, and
\* the value returned or the exception raised
CreditRatingPredict(mp, fn, m) ==
    IF Truthy(fn) /\ MissingAt(mp, fn.names) # {}
    THEN [tag |-> "exc", vector |-> <<>>, calls |-> 0, type |-> "", val |-> 0,
          msg |-> "'" \o fn.names[Min(MissingAt(mp, fn.names))] \o "'", cause |-> "lookup"]
    ELSE LET input_data == IF Truthy(fn)
                           THEN [i \in 1..Len(fn.names) |-> GetItem(mp.items, fn.names[i])]
                           ELSE Values(mp.items)
             p == Predict(m, input_data)
         IN  [tag |-> p.tag, vector |-> input_data, calls |-> 1, type |-> p.type,
              val |-> p.val, msg |-> p.msg, cause |-> IF p.tag = "exc" THEN "predict" ELSE ""]

(***************************************************************************)
(* One call of handle: the request, the stage reached, what validation     *)
(* and prediction did, and what the call returned.                         *)
(***************************************************************************)
NoResponse == [pending |-> TRUE]
PredictionResult(cid, rating) == [client_id |-> cid, predicted_credit_rating |-> rating]
ErrorResult(m) == [Error |-> m]

IdleSlot ==
    [pc |-> "Idle", req |-> NoRequest, path |-> <<>>, valid |-> "none",
     query_check |-> "none", model_check |-> "none", vector |-> <<>>, calls |-> 0,
     cause |-> "", response |-> NoResponse, escaped |-> FALSE]

\* handle entered with request r
Received(r) == [IdleSlot EXCEPT !.pc = "Received", !.req = r, !.path = <<"Received">>]

\* mutant: the exception is not caught and leaves handle
HandleExceptionEscapes(s, cause, m) ==
    [s EXCEPT !.pc = "Failed", !.path = @ \o <<"Failed">>, !.cause = cause,
              !.escaped = TRUE]

\* the except branch of handle: the exception becomes the response
HandleException(s, cause, m) ==
    [s EXCEPT !.pc = "Failed", !.path = @ \o <<"Failed">>, !.cause = cause,
              !.response = ErrorResult(m)]

\* mutant: the result of validate_params does not gate the prediction
AfterValidationNoGate(s, v) ==
    LET s1 == [s EXCEPT !.path = @ \o <<"Validating">>,
                        !.query_check = v.query_check, !.model_check = v.model_check]
    IN  IF v.out.tag = "exc"
        THEN HandleException([s1 EXCEPT !.valid = "raised"], "validate", v.out.msg)
        ELSE [s1 EXCEPT !.pc = "Predicting", !.path = @ \o <<"Predicting">>,
                        !.valid = IF v.out.val THEN "true" ELSE "false"]

\* handle after validate_params gave v
AfterValidation(s, v) ==
    LET s1 == [s EXCEPT !.path = @ \o <<"Validating">>,
                        !.query_check = v.query_check, !.model_check = v.model_check]
    IN  IF v.out.tag = "exc"
        THEN HandleException([s1 EXCEPT !.valid = "raised"], "validate", v.out.msg)
        ELSE IF ~v.out.val
        THEN [s1 EXCEPT !.pc = "Rejected", !.path = @ \o <<"Rejected">>, !.valid = "false",
                        !.response = ErrorResult("Problem with parameters")]
        ELSE [s1 EXCEPT !.pc = "Predicting", !.path = @ \o <<"Predicting">>, !.valid = "true"]

\* handle after credit_rating_predict gave p
AfterPrediction(s, p) ==
    LET s1 == [s EXCEPT !.vector = p.vector, !.calls = @ + p.calls]
        f == ToFloat(p)
    IN  IF p.tag = "exc" THEN HandleException(s1, p.cause, p.msg)
        ELSE IF f.tag = "exc" THEN HandleException(s1, "float", f.msg)
        ELSE [s1 EXCEPT !.pc = "Succeeded", !.path = @ \o <<"Succeeded">>,
                        !.response = PredictionResult(s.req.client_id, f.val)]

(***************************************************************************)
(* Startup: FastApiHandler.__init__.                                       *)
(***************************************************************************)
ParamTypes == [client_id |-> "str", model_params |-> "dict"]
NoParamTypes == [client_id |-> "", model_params |-> ""]

\* mutant: the except branch logs the failure and does not re-raise
LoadCreditModelSwallows(o) ==
    IF o.ok THEN [model |-> o.artifact, raised |-> FALSE]
    ELSE [model |-> UnloadedModel, raised |-> FALSE]

\* load_credit_model: the model object it leaves, and whether it raised
LoadCreditModel(o) ==
    IF o.ok THEN [model |-> o.artifact, raised |-> FALSE]
    ELSE [model |-> UnloadedModel, raised |-> TRUE]

\* self.model.feature_names_ if hasattr(...) else None
FeatureNamesOf(m) == m.feature_names_

\* mutant: the default list is required whatever the model records
RequiredModelParamsDefault(fn) == Names(DefaultFeatures)

RequiredModelParams(fn) == IF Truthy(fn) THEN Names(fn.names) ELSE Names(DefaultFeatures)

Shared == <<phase, loadResult, loadAttempts, param_types, model,
            feature_names, required_model_params, snapshot>>

Init ==
    /\ phase = "start"
    /\ loadResult = "none"
    /\ loadAttempts = 0
    /\ param_types = NoParamTypes
    /\ model = NoModel
    /\ feature_names = NoNames
    /\ required_model_params = NoNames
    /\ snapshot = <<>>
    /\ slot = [t \in Threads |-> IdleSlot]

\* __init__ up to the end of load_credit_model
InitLoad ==
    /\ phase = "start"
    /\ \E o \in LoadOutcomes :
          LET r == LoadCreditModel(o)
          IN  /\ param_types' = ParamTypes
              /\ model' = r.model
              /\ loadResult' = IF o.ok THEN "ok" ELSE "error"
              /\ phase' = IF r.raised THEN "failed" ELSE "loaded"
    /\ loadAttempts' = loadAttempts + 1
    /\ UNCHANGED <<feature_names, required_model_params, snapshot, slot>>

\* the rest of __init__: the feature list
InitFeatures ==
    /\ phase = "loaded"
    /\ feature_names' = FeatureNamesOf(model)
    /\ required_model_params' = RequiredModelParams(feature_names')
    /\ snapshot' = <<[param_types |-> param_types, model |-> model,
                      feature_names |-> feature_names',
                      required_model_params |-> required_model_params']>>
    /\ phase' = "ready"
    /\ UNCHANGED <<loadResult, loadAttempts, param_types, model, slot>>

(***************************************************************************)
(* Handling requests.                                                      *)
(***************************************************************************)
Receive(t) ==
    /\ phase = "ready"
    /\ slot[t].pc = "Idle"
    /\ \E r \in Requests : slot' = [slot EXCEPT ![t] = Received(r)]
    /\ UNCHANGED Shared

ValidateStep(t) ==
    /\ slot[t].pc = "Received"
    /\ slot' = [slot EXCEPT ![t] =
                  AfterValidation(@, ValidateParams(@.req, param_types,
                                                    required_model_params.names))]
    /\ UNCHANGED Shared

\* mutant: credit_rating_predict keeps the keys of the request as the feature list
PredictStepLearnsFeatures(t) ==
    /\ slot[t].pc = "Predicting"
    /\ slot' = [slot EXCEPT ![t] =
                  AfterPrediction(@, CreditRatingPredict(@.req.model_params,
                                                         feature_names, model))]
    /\ feature_names' = Names([i \in 1..Len(slot[t].req.model_params.items) |->
                                  slot[t].req.model_params.items[i].k])
    /\ UNCHANGED <<phase, loadResult, loadAttempts, param_types, model,
                   required_model_params, snapshot>>

PredictStep(t) ==
    /\ slot[t].pc = "Predicting"
    /\ slot' = [slot EXCEPT ![t] =
                  AfterPrediction(@, CreditRatingPredict(@.req.model_params,
                                                         feature_names, model))]
    /\ UNCHANGED Shared

\* the caller takes the response; the handler is free for the next request
Return(t) ==
    /\ slot[t].pc \in {"Rejected", "Succeeded", "Failed"}
    /\ slot' = [slot EXCEPT ![t] = IdleSlot]
    /\ UNCHANGED Shared

Next ==
    \/ InitLoad
    \/ InitFeatures
    \/ \E t \in Threads : Receive(t)
    \/ \E t \in Threads : ValidateStep(t)
    \/ \E t \in Threads : PredictStep(t)
    \/ \E t \in Threads : Return(t)

Spec == Init /\ [][Next]_vars

(***************************************************************************)
(* Vocabulary of the properties.                                           *)
(***************************************************************************)
Terminal(s) == s.pc \in {"Rejected", "Succeeded", "Failed"}
Schema == required_model_params.names
ProblemWithParameters == ErrorResult("Problem with parameters")

IsPredictionResult(resp) == DOMAIN resp = {"client_id", "predicted_credit_rating"}
IsErrorResult(resp) == DOMAIN resp = {"Error"}

\* the request is a mapping with both fields, of the right types
ShapeOk(r) ==
    /\ r.kind = "dict"
    /\ r.client_id.type # "absent" /\ r.model_params.type # "absent"
    /\ r.client_id.type = "str"
    /\ r.model_params.type = "dict"
\* every schema feature is a key of mp
Complete(mp) == {Schema[i] : i \in 1..Len(Schema)} \subseteq KeySet(mp.items)
ValidationPasses(r) == ShapeOk(r) /\ Complete(r.model_params)

\* C1: whatever the request (a non-mapping, wrong field types, a model whose
\* predict raises or returns a value float() rejects), a call of handle that
\* has not returned yet can take its next step, a call that has returned
\* returned {client_id, predicted_credit_rating} or {Error: <string>}, and no
\* exception escaped.
C1_HandleAlwaysReturnsAResult ==
    \A t \in Threads :
        /\ ~slot[t].escaped
        /\ slot[t].pc = "Received" => ENABLED ValidateStep(t)
        /\ slot[t].pc = "Predicting" => ENABLED PredictStep(t)
        /\ Terminal(slot[t]) =>
              \/ IsPredictionResult(slot[t].response)
              \/ IsErrorResult(slot[t].response)

\* C1 witness: one call failed on a request that is no mapping, another on
\* a prediction that float() rejects, both with an ErrorResult.
C1_Witness ==
    \E t, u \in Threads :
        /\ slot[t].pc = "Failed" /\ slot[t].req.kind # "dict"
        /\ IsErrorResult(slot[t].response)
        /\ slot[u].pc = "Failed" /\ slot[u].cause = "float"
        /\ IsErrorResult(slot[u].response)

\* C2 (as stated): every returned call whose request fails validation
\* (client_id or model_params missing, client_id no string, model_params no
\* mapping, a schema feature missing) returned {"Error": "Problem with
\* parameters"}.
C2_AsStated ==
    \A t \in Threads :
        (Terminal(slot[t]) /\ ~ValidationPasses(slot[t].req))
            => slot[t].response = ProblemWithParameters

\* C2 (amended): a returned call whose request is a mapping that fails
\* validation returned {"Error": "Problem with parameters"}; so did one whose
\* request is a list lacking one of the two names; a request on which the
\* membership test or the subscript raises (None, a number, a list holding
\* both names) got {"Error": <message of that TypeError>}.
C2_ValidationFailureResult ==
    \A t \in Threads :
        LET r == slot[t].req
        IN  (Terminal(slot[t]) /\ ~ValidationPasses(r)) =>
              slot[t].response =
                IF r.kind \in {"NoneType", "int"}
                THEN ErrorResult("argument of type '" \o r.kind \o "' is not iterable")
                ELSE IF r.kind = "list" /\ {"client_id", "model_params"} \subseteq r.keys
                THEN ErrorResult("list indices must be integers or slices, not str")
                ELSE ProblemWithParameters

\* C2 witness: a call was rejected for an empty model_params under a
\* non-empty schema, and another returned for a request that is None.
C2_Witness ==
    \E t, u \in Threads :
        /\ slot[t].pc = "Rejected" /\ slot[t].req.model_params = PyDict(<<>>)
        /\ slot[t].req.client_id.type = "str" /\ Len(Schema) > 0
        /\ slot[t].response = ProblemWithParameters
        /\ Terminal(slot[u]) /\ slot[u].req.kind = "NoneType"

C4_ModelCheckIffComplete ==
    /\ \A t \in Threads :
          slot[t].model_check # "none" =>
              (slot[t].model_check = "true" <=> Complete(slot[t].req.model_params))
    /\ \A t, u \in Threads :
          (/\ slot[t].model_check # "none" /\ slot[u].model_check # "none"
           /\ KeySet(slot[t].req.model_params.items) \cap {Schema[i] : i \in 1..Len(Schema)}
              = KeySet(slot[u].req.model_params.items) \cap {Schema[i] : i \in 1..Len(Schema)})
              => slot[t].model_check = slot[u].model_check

\* C4 witness: the check returned true for a model_params with an extra key
\* first and the schema keys in reverse order, and false for one that holds
\* some but not all schema features.
C4_Witness ==
    \E t, u \in Threads :
        /\ slot[t].model_check = "true" /\ Schema = <<"a", "b">>
        /\ slot[t].req.model_params = DictOf(<<"x", "b", "a">>, 0)
        /\ slot[u].model_check = "false"
        /\ slot[u].req.model_params = DictOf(<<"b", "x">>, 0)

\* C5 (as stated): whenever predict was called, the vector it got has the
\* length of the required feature list and its i-th element is
\* model_params[schema[i]].
C5_AsStated ==
    \A t \in Threads :
        slot[t].calls > 0 =>
            /\ Len(slot[t].vector) = Len(Schema)
            /\ \A i \in 1..Len(Schema) :
                  i <= Len(slot[t].vector) =>
                      slot[t].vector[i] = GetItem(slot[t].req.model_params.items, Schema[i])

\* the items of mp under schema keys, in the order mp holds them
InSchema(e) == \E i \in 1..Len(Schema) : Schema[i] = e.k
SchemaItems(mp) == SelectSeq(mp.items, InSchema)

\* C6 (as stated): two calls that passed validation, with the same client_id
\* and model_params that differ in nothing but keys outside the schema,
\* handed predict the same vector and returned the same result.
C6_AsStated ==
    \A t, u \in Threads :
        (/\ Terminal(slot[t]) /\ Terminal(slot[u])
         /\ slot[t].valid = "true" /\ slot[u].valid = "true"
         /\ slot[t].req.client_id = slot[u].req.client_id
         /\ SchemaItems(slot[t].req.model_params) = SchemaItems(slot[u].req.model_params))
            => /\ slot[t].vector = slot[u].vector
               /\ slot[t].response = slot[u].response

\* C7: a request is in a handler only after a load that succeeded and a
\* completed derivation of the feature list; after a load that raised, the
\* construction has failed, no feature list exists and no request is in any
\* handler; the load is attempted at most once.
C7_LoadFailureIsFatal ==
    /\ loadAttempts <= 1
    /\ phase = "ready" => (loadResult = "ok" /\ model.loaded /\ ~required_model_params.isNone)
    /\ loadResult = "error" =>
          /\ phase = "failed"
          /\ required_model_params = NoNames /\ feature_names = NoNames
          /\ snapshot = <<>>
    /\ \A t \in Threads :
          slot[t].pc # "Idle" => (phase = "ready" /\ loadResult = "ok")

\* C7 witness: the load was attempted and raised.
C7_Witness == loadAttempts = 1 /\ loadResult = "error" /\ phase = "failed"

\* C8: once startup is over the model, the feature names, the required list
\* and the parameter-type table are what startup left, whatever was handled
\* since; two returned calls with the same request returned the same result.
C8_HandleIsAFunctionOfTheRequest ==
    /\ phase = "ready" =>
          snapshot = <<[param_types |-> param_types, model |-> model,
                        feature_names |-> feature_names,
                        required_model_params |-> required_model_params]>>
    /\ \A t, u \in Threads :
          (Terminal(slot[t]) /\ Terminal(slot[u]) /\ slot[t].req = slot[u].req)
              => slot[t].response = slot[u].response

\* C8 witness: both handlers returned a prediction for the same request.
C8_Witness ==
    /\ slot["t1"].pc = "Succeeded" /\ slot["t2"].pc = "Succeeded"
    /\ slot["t1"].req = slot["t2"].req

AllowedPaths ==
    {<<"Received", "Validating", "Rejected">>,
     <<"Received", "Validating", "Predicting", "Succeeded">>,
     <<"Received", "Validating", "Predicting", "Failed">>}
IsPrefix(p, q) == Len(p) <= Len(q) /\ \A i \in 1..Len(p) : p[i] = q[i]

\* what the call in handler t satisfies besides its path
StageFacts(t) ==
    LET s == slot[t] IN
    /\ s.calls <= 1
    /\ s.calls = 1 => s.valid = "true"
    /\ s.pc = "Predicting" => s.valid = "true"
    /\ s.pc = "Rejected" => (s.calls = 0 /\ s.valid = "false")
    /\ s.pc = "Succeeded" =>
          /\ IsPredictionResult(s.response)
          /\ s.response.client_id = s.req.client_id
          /\ s.calls = 1
    /\ s.pc = "Failed" =>
          /\ IsErrorResult(s.response)
          /\ s.cause = "predict" => s.response.Error = Predict(model, s.vector).msg
          /\ s.cause = "float" => s.response.Error = ToFloat(Predict(model, s.vector)).msg
          /\ s.cause \in {"validate", "lookup", "predict", "float"}
    /\ Terminal(s) <=> s.response # NoResponse
    /\ s.pc = "Received" => ENABLED ValidateStep(t)
    /\ s.pc = "Predicting" => ENABLED PredictStep(t)

\* C9 (as stated): the stages of every call are a prefix of Received,
\* Validating, Rejected or of Received, Validating, Predicting, Succeeded or
\* Failed; predict is called at most once and only after validation returned
\* true; a Succeeded call returns the request's client_id, a Failed one the
\* exception's message.
C9_AsStated ==
    \A t \in Threads :
        /\ \E p \in AllowedPaths : IsPrefix(slot[t].path, p)
        /\ StageFacts(t)

\* C9 (amended): as stated, with one more path: a call goes from Validating
\* straight to Failed exactly when validate_params itself raised.
C9_RequestStateMachine ==
    \A t \in Threads :
        /\ \/ \E p \in AllowedPaths : IsPrefix(slot[t].path, p)
           \/ slot[t].path = <<"Received", "Validating", "Failed">>
        /\ slot[t].path = <<"Received", "Validating", "Failed">>
              <=> slot[t].valid = "raised"
        /\ slot[t].valid = "raised" => slot[t].req.kind # "dict"
        /\ StageFacts(t)

\* C9 witness: one call failed in validation on a request that is no
\* mapping, the other went through Predicting and succeeded.
C9_Witness ==
    \E t, u \in Threads :
        /\ slot[t].path = <<"Received", "Validating", "Failed">>
        /\ slot[u].path = <<"Received", "Validating", "Predicting", "Succeeded">>

\* C10: when the model records a non-empty list of feature names, the list
\* the completeness check requires is the list the vector is assembled from,
\* no call that passed validation fails on a missing key, and such a call
\* fails only after predict was called (predict or float() raised).
C10_ValidatedLookupsSucceed ==
    (phase = "ready" /\ Truthy(feature_names)) =>
        /\ required_model_params.names = feature_names.names
        /\ \A t \in Threads :
              slot[t].valid = "true" =>
                  /\ slot[t].cause # "lookup"
                  /\ slot[t].pc = "Failed" =>
                        (slot[t].calls = 1 /\ slot[t].cause \in {"predict", "float"})

\* C10 witness: under a model with feature names, one validated call failed
\* because predict raised and another validated call is about to predict.
C10_Witness ==
    /\ Truthy(feature_names)
    /\ \E t \in Threads :
          slot[t].valid = "true" /\ slot[t].pc = "Failed" /\ slot[t].cause = "predict"
    /\ \E u \in Threads : slot[u].valid = "true" /\ slot[u].pc = "Predicting"

====
